---- MODULE Spec2Model ----
(***************************************************************************)
(* A model of CohdTrapi110 (src/cohd/cohd_trapi_110.py): the one-hop TRAPI *)
(* query pipeline of the COHD reasoner.  One request is interpreted by     *)
(* _interpret_query (run from __init__), answered by operate(), which      *)
(* retrieves and sorts the association records, and serialized by          *)
(* _serialize_trapi_response, which feeds the records one by one to        *)
(* _add_cohd_result.                                                       *)
(*                                                                         *)
(* The collaborators (schema validator, biolink toolkit, concept mapper,   *)
(* statistics store) are stubs fixed per scenario in the variable sc.      *)
(***************************************************************************)
EXTENDS Integers, Sequences, FiniteSets, TLC

VARIABLES
    sc,            \* the request and the collaborator stubs of this run
    pc,            \* "new", "interpreted", "serializing", "done"
    q,             \* the fields _interpret_query sets on the instance
    cohd_results,  \* self._cohd_results
    idx,           \* position of the for loop of _serialize_trapi_response
    kg_nodes,      \* self._kg_nodes: node cache keyed by OMOP concept id
    kgraph,        \* self._knowledge_graph: [nodes, edges]
    results,       \* self._results
    calls,         \* collaborator calls issued so far
    log,           \* history: what each _add_cohd_result did with its record
    first_seen,    \* history: the payload each concept's node had when created
    response       \* what operate() returned

vars ==
    <<sc, pc, q, cohd_results, idx, kg_nodes, kgraph, results, calls, log, first_seen,
      response>>

(***************************************************************************)
(* Bounds of the model.                                                    *)
(***************************************************************************)
MaxIds == 2          \* identifiers on one qnode
MaxRecs == 2         \* records the statistics store holds for the anchor

(***************************************************************************)
(* Values.                                                                 *)
(***************************************************************************)
None == "None"
NoConcept == 0                       \* an OMOP concept id that is None
Concepts == {1, 2, 3}
NoCurie == <<"None", 0>>             \* a CURIE that is None
NoName == <<"None", 0>>              \* a concept name that is None
Curie(n) == <<"EXT", n>>             \* an external (biolink) identifier
Curies == {Curie(n) : n \in 1..2}
omop_concept_curie(c) == <<"OMOP", c>>

\* Optional JSON values of query_options: absent, a number, or another type.
Absent == [t |-> "absent"]
Num(n) == [t |-> "num", v |-> n]
Str == [t |-> "str"]
Bool(b) == [t |-> "bool", b |-> b]
Dict == [t |-> "dict"]

\* isinstance(x, Number): Python's bool is a Number, True counting as 1.
IsNum(x) == x.t \in {"num", "bool"}
NumberValue(x) == IF x.t = "bool" THEN (IF x.b THEN 1 ELSE 0) ELSE x.v

RECURSIVE SeqsUpTo(_, _)
SeqsUpTo(S, n) ==
    IF n = 0 THEN {<<>>}
    ELSE LET shorter == SeqsUpTo(S, n - 1)
         IN  shorter \cup {Append(s, x) : s \in {t \in shorter : Len(t) = n - 1}, x \in S}

Range(s) == {s[i] : i \in 1..Len(s)}


(***************************************************************************)
(* Class constants of CohdTrapi (cohd_trapi.py).  The two result limits    *)
(* are scaled down so that the bounded record lists can reach them, and    *)
(* the confidence interval is counted in hundredths.                       *)
(***************************************************************************)
default_method == "obsExpRatio"
supported_query_methods == {"relativeFrequency", "obsExpRatio", "chiSquare"}
default_dataset_id == 1
default_min_cooccurrence == 0
default_confidence_interval == 99
default_local_oxo == TRUE
default_mapping_distance == 3
default_biolink_only == TRUE
default_max_results == 2
limit_max_results == 2
default_predicate == "biolink:correlated_with"

supported_categories ==
    <<"biolink:ChemicalSubstance", "biolink:DiseaseOrPhenotypicFeature",
      "biolink:Drug", "biolink:Procedure">>
supported_edge_types == {"biolink:correlated_with"}

(***************************************************************************)
(* The biolink toolkit (bm_toolkit) and the category helpers.              *)
(***************************************************************************)
Predicates ==
    {"biolink:correlated_with", "biolink:related_to", "biolink:treats", "not_a_predicate"}

is_predicate(p) == p # "not_a_predicate"

\* bm_toolkit.get_descendants is reflexive; the slot_uri of every descendant
\* is its own name.
predicate_descendants(p) ==
    CASE p = "biolink:related_to" ->
            {"biolink:related_to", "biolink:correlated_with", "biolink:treats"}
      [] p = "biolink:correlated_with" -> {"biolink:correlated_with"}
      [] OTHER -> {p}

Categories ==
    {"biolink:NamedThing", "biolink:ChemicalSubstance", "biolink:Drug",
     "biolink:Disease", "biolink:DiseaseOrPhenotypicFeature", "biolink:Gene"}

category_descendants(cat) ==
    CASE cat = "biolink:NamedThing" -> Categories \cup {"biolink:Procedure"}
      [] cat = "biolink:ChemicalSubstance" -> {"biolink:ChemicalSubstance", "biolink:Drug"}
      [] cat = "biolink:DiseaseOrPhenotypicFeature" ->
            {"biolink:DiseaseOrPhenotypicFeature", "biolink:Disease"}
      [] OTHER -> {cat}

\* suggest_blm_category: the category COHD handles better, or None.
suggest_blm_category(cat) ==
    IF cat = "biolink:Disease" THEN "biolink:DiseaseOrPhenotypicFeature" ELSE None

\* map_blm_class_to_omop_domain: the (domain_id, concept_class_id) pairs of
\* a supported category.
map_blm_class_to_omop_domain(cat) ==
    CASE cat = "biolink:ChemicalSubstance" -> {<<"Drug", "Ingredient">>}
      [] cat = "biolink:Drug" -> {<<"Drug", None>>}
      [] cat = "biolink:DiseaseOrPhenotypicFeature" -> {<<"Condition", None>>}
      [] cat = "biolink:Procedure" -> {<<"Procedure", None>>}
      [] OTHER -> {}

RECURSIVE process_from(_, _)
process_from(cats, i) ==
    IF i > Len(cats) THEN cats
    ELSE LET preferred == suggest_blm_category(cats[i])
         IN  IF preferred # None /\ preferred \notin Range(cats)
             THEN process_from([cats EXCEPT ![i] = preferred], i + 1)
             ELSE process_from(cats, i + 1)

_process_qnode_category(categories) == process_from(categories, 1)

(***************************************************************************)
(* Responses.  A hard rejection is the pair (message, 400); a soft outcome *)
(* is the pair (_trapi_mini_response(...), 200); a served query returns    *)
(* the envelope of _serialize_trapi_response.                              *)
(***************************************************************************)
EmptyMap == [x \in {} |-> 0]
Put(f, k, v) == [x \in DOMAIN f \cup {k} |-> IF x = k THEN v ELSE f[x]]

EmptyGraph == [nodes |-> EmptyMap, edges |-> EmptyMap]

NoResponse == [kind |-> "none"]

Rejection(why) == [kind |-> "rejection", code |-> 400, why |-> why]

_trapi_mini_response(status, description) ==
    [kind |-> "envelope", code |-> 200, status |-> status, description |-> description,
     results_null |-> TRUE, results |-> <<>>,
     knowledge_graph_null |-> TRUE, knowledge_graph |-> EmptyGraph]

Raised == [kind |-> "exception"]

(***************************************************************************)
(* The instance fields after the assignments of __init__ (lines 30-58).    *)
(***************************************************************************)
NoPairs == [none |-> TRUE, pairs |-> {}]
PairSet(ps) == [none |-> FALSE, pairs |-> ps]

InitFields ==
    [valid_query |-> FALSE,
     invalid_query_response |-> NoResponse,
     query_edge_key |-> None,
     query_edge |-> [subject |-> None, object |-> None],
     query_edge_predicates |-> None,
     concept_1_qnode_key |-> None,
     concept_2_qnode_key |-> None,
     concept_1_qnode_curie |-> NoCurie,
     concept_2_qnode_curie |-> NoCurie,
     concept_1_omop_id |-> NoConcept,
     concept_2_omop_id |-> NoConcept,
     concept_2_qnode_categories |-> <<>>,
     domain_class_pairs |-> NoPairs,
     method |-> None,
     dataset_id |-> None,
     local_oxo |-> default_local_oxo,
     mapping_distance |-> None,
     concept_mapper |-> "default_ontology_map",
     min_cooccurrence |-> default_min_cooccurrence,
     confidence_interval |-> default_confidence_interval,
     threshold |-> Absent,
     biolink_only |-> default_biolink_only,
     max_results |-> default_max_results,
     criteria |-> <<>>]

\* What _interpret_query leaves behind: the fields, the map_to_omop calls it
\* issued, and whether it ended in an uncaught exception.
Return(f, mc) == [q |-> f, map_to_omop |-> mc, raised |-> FALSE]
\* A variant of the soft outcome that stores the response and leaves
\* _valid_query as it is.
SoftKeepsValid(f, status, description, mc) ==
    Return([f EXCEPT !.invalid_query_response = _trapi_mini_response(status, description)], mc)

Reject(f, why, mc) ==
    Return([f EXCEPT !.valid_query = FALSE, !.invalid_query_response = Rejection(why)], mc)
Soft(f, status, description, mc) ==
    Return([f EXCEPT !.valid_query = FALSE,
                     !.invalid_query_response = _trapi_mini_response(status, description)], mc)
Raise(f, mc) == [q |-> f, map_to_omop |-> mc, raised |-> TRUE]

\* A variant of _check_query_input that accepts more than two nodes.
CheckQueryInputAtLeastTwoNodes(s) ==
    IF s.body = "none" THEN "Missing JSON request body"
    ELSE IF ~s.schema_valid THEN "ValidationError"
    ELSE IF s.query_graph \in {"null", "empty"}
         THEN "Unsupported query: query_graph missing from query_message or empty"
    ELSE IF Cardinality(DOMAIN s.nodes) < 2 \/ Cardinality(DOMAIN s.edges) # 1
         THEN "Unsupported query. Only one-hop queries supported."
    ELSE "ok"

(***************************************************************************)
(* _check_query_input (lines 82-129): "ok" or the message of the rejection.*)
(***************************************************************************)
_check_query_input(s) ==
    IF s.body = "none" THEN "Missing JSON request body"
    ELSE IF ~s.schema_valid THEN "ValidationError"
    ELSE IF s.query_graph \in {"null", "empty"}
         THEN "Unsupported query: query_graph missing from query_message or empty"
    ELSE IF Cardinality(DOMAIN s.nodes) # 2 \/ Cardinality(DOMAIN s.edges) # 1
         THEN "Unsupported query. Only one-hop queries supported."
    ELSE "ok"

(***************************************************************************)
(* _interpret_query, last stage first.                                     *)
(***************************************************************************)
\* Lines 478-500: the criteria list.
Criterion(fn, arg) == [function |-> fn, arg |-> arg]

\* A variant of the criteria list that adds the confidence criterion for
\* every method.
BuildCriteriaAnyMethod(s, f) ==
    LET c1 == IF f.min_cooccurrence > 0
              THEN <<Criterion("criteria_min_cooccurrence", f.min_cooccurrence)>>
              ELSE <<>>
        th == s.options.threshold
        c2 == IF IsNum(th) THEN <<Criterion("criteria_threshold", NumberValue(th))>> ELSE <<>>
        c3 == IF f.confidence_interval > 0
              THEN <<Criterion("criteria_confidence", f.confidence_interval)>>
              ELSE <<>>
    IN  [f EXCEPT !.threshold = th, !.criteria = c1 \o c2 \o c3]

BuildCriteria(s, f) ==
    LET c1 == IF f.min_cooccurrence > 0
              THEN <<Criterion("criteria_min_cooccurrence", f.min_cooccurrence)>>
              ELSE <<>>
        th == s.options.threshold
        c2 == IF IsNum(th) THEN <<Criterion("criteria_threshold", NumberValue(th))>> ELSE <<>>
        c3 == IF f.method = "obsExpRatio" /\ f.confidence_interval > 0
              THEN <<Criterion("criteria_confidence", f.confidence_interval)>>
              ELSE <<>>
    IN  [f EXCEPT !.threshold = th, !.criteria = c1 \o c2 \o c3]

\* Lines 466-476: constraints on the two qnodes.
AnchorConstraintsRejected(qnode) == qnode.contraints

CheckConstraints(s, f, mc) ==
    LET concept_1_qnode == s.nodes[f.concept_1_qnode_key]
        concept_2_qnode == s.nodes[f.concept_2_qnode_key]
    IN  IF AnchorConstraintsRejected(concept_1_qnode)
        THEN Reject(f, "COHD does not support constraints on a QNode with ids specified", mc)
        ELSE IF concept_2_qnode.constraints = "nonempty"
        THEN Reject(f, "COHD has not yet implemented support of constraints", mc)
        ELSE Return(BuildCriteria(s, f), mc)

\* A variant of the identifier scan that takes the first identifier whether
\* or not it has a mapping.
FirstIdentifier(ids, to_omop, i) == IF i > Len(ids) THEN 0 ELSE i

\* Line 358: node_mappings = self._concept_mapper.map_to_omop(node_ids).
\* Lines 364-375 and 401-415: the first identifier of the list with a mapping.
RECURSIVE FirstMapped(_, _, _)
FirstMapped(ids, to_omop, i) ==
    IF i > Len(ids) THEN 0
    ELSE IF to_omop[ids[i]] # NoConcept THEN i
    ELSE FirstMapped(ids, to_omop, i + 1)

\* Lines 435-443: the (domain, class) pairs of the queried categories.
DerivedPairs(categories) ==
    UNION {map_blm_class_to_omop_domain(supported_categories[i]) :
             i \in {j \in 1..Len(supported_categories) :
                      \E k \in 1..Len(categories) :
                         supported_categories[j] \in category_descendants(categories[k])}}

\* A variant of the pair-set target that accepts an empty set of pairs.
TargetByPairsUnchecked(s, f, pairs, mc) ==
    CheckConstraints(s, [f EXCEPT !.domain_class_pairs = PairSet(pairs)], mc)

\* Lines 445-460: the target is the set of derived pairs, which must not be
\* empty.
TargetByPairs(s, f, pairs, mc) ==
    IF pairs = {}
    THEN Soft([f EXCEPT !.domain_class_pairs = PairSet({})],
              "UnsupportedQNodeCategory",
              "None of the categories are supported by COHD", mc)
    ELSE CheckConstraints(s, [f EXCEPT !.domain_class_pairs = PairSet(pairs)], mc)

\* Lines 385-464: categories and the target of the association.
ResolveTarget(s, f, mc) ==
    LET concept_2_qnode == s.nodes[f.concept_2_qnode_key]
        cats == IF concept_2_qnode.has_categories
                THEN _process_qnode_category(concept_2_qnode.categories)
                ELSE <<>>
        f1 == [f EXCEPT !.concept_2_qnode_categories = cats]
    IN  IF concept_2_qnode.has_ids /\ concept_2_qnode.ids # <<>>
        THEN LET i == FirstMapped(concept_2_qnode.ids, s.to_omop, 1)
             IN  IF i = 0
                 THEN Soft(f1, "CouldNotMapCurieToLocalKG", "Could not map node to OMOP concept", mc)
                 ELSE CheckConstraints(s,
                        [f1 EXCEPT !.concept_2_qnode_curie = concept_2_qnode.ids[i],
                                   !.concept_2_omop_id = s.to_omop[concept_2_qnode.ids[i]],
                                   !.domain_class_pairs = NoPairs], mc)
        ELSE IF concept_2_qnode.has_categories /\ cats # <<>>
        THEN IF "biolink:NamedThing" \in Range(cats)
             THEN CheckConstraints(s, f1, mc)
             ELSE TargetByPairs(s, f1, DerivedPairs(cats), mc)
        ELSE CheckConstraints(s, f1, mc)

\* A variant of the resolver call that passes the anchor's identifiers only.
ResolveAnchorOwnIdentifiers(s, f, node_ids) ==
    LET concept_1_qnode == s.nodes[f.concept_1_qnode_key]
        mc == <<Range(concept_1_qnode.ids)>>
        i == FirstMapped(concept_1_qnode.ids, s.to_omop, 1)
    IN  IF i = 0
        THEN Soft(f, "CouldNotMapCurieToLocalKG", "Could not map node to OMOP concept", mc)
        ELSE ResolveTarget(s,
               [f EXCEPT !.concept_1_qnode_curie = concept_1_qnode.ids[i],
                         !.concept_1_omop_id = s.to_omop[concept_1_qnode.ids[i]]], mc)

\* Lines 357-383: the resolver call and the anchor's identifier.
ResolveAnchor(s, f, node_ids) ==
    LET mc == <<node_ids>>
        concept_1_qnode == s.nodes[f.concept_1_qnode_key]
        i == FirstMapped(concept_1_qnode.ids, s.to_omop, 1)
    IN  IF i = 0
        THEN Soft(f, "CouldNotMapCurieToLocalKG", "Could not map node to OMOP concept", mc)
        ELSE ResolveTarget(s,
               [f EXCEPT !.concept_1_qnode_curie = concept_1_qnode.ids[i],
                         !.concept_1_omop_id = s.to_omop[concept_1_qnode.ids[i]]], mc)

\* A variant of the anchor choice that keeps the first qnode found with ids.
AnchorKeysFirstFound(s, f) ==
    IF s.nodes[f.query_edge.object].has_ids /\ ~s.nodes[f.query_edge.subject].has_ids
    THEN [f EXCEPT !.concept_1_qnode_key = f.query_edge.object,
                   !.concept_2_qnode_key = f.query_edge.subject]
    ELSE f

\* A variant of the lines on the subject that records the key of the object
\* for both concepts.
SubjectKeysObjectOnly(s, f) ==
    IF s.nodes[f.query_edge.subject].has_ids
    THEN [f EXCEPT !.concept_1_qnode_key = f.query_edge.object,
                   !.concept_2_qnode_key = f.query_edge.object]
    ELSE f

\* Lines 337-341: the subject qnode has the key 'ids'.
SubjectKeys(s, f) ==
    IF s.nodes[f.query_edge.subject].has_ids
    THEN [f EXCEPT !.concept_1_qnode_key = f.query_edge.subject,
                   !.concept_2_qnode_key = f.query_edge.object]
    ELSE f

\* Lines 343-347: the object qnode has the key 'ids'; f is the outcome of
\* the lines on the subject.
AnchorKeys(s, f) ==
    IF s.nodes[f.query_edge.object].has_ids
    THEN [f EXCEPT !.concept_1_qnode_key = f.query_edge.object,
                   !.concept_2_qnode_key = f.query_edge.subject]
    ELSE f

\* Lines 318-355: the two qnodes of the edge and the choice of concept_1.
\* A null 'ids' makes set.union raise a TypeError (lines 342 and 348).
ChooseAnchor(s, f) ==
    LET subject_qnode_key == f.query_edge.subject
        object_qnode_key == f.query_edge.object
    IN  IF subject_qnode_key \notin DOMAIN s.nodes
        THEN Reject(f, "QNode id of the subject not found in query graph", <<>>)
        ELSE IF object_qnode_key \notin DOMAIN s.nodes
        THEN Reject(f, "QNode id of the object not found in query graph", <<>>)
        ELSE
        LET subject_qnode == s.nodes[subject_qnode_key]
            object_qnode == s.nodes[object_qnode_key]
            f1 == SubjectKeys(s, f)
            f2 == AnchorKeys(s, f1)
            node_ids == (IF subject_qnode.has_ids THEN Range(subject_qnode.ids) ELSE {})
                        \cup (IF object_qnode.has_ids THEN Range(object_qnode.ids) ELSE {})
        IN  IF subject_qnode.has_ids /\ subject_qnode.ids_null
            THEN Raise(f1, <<>>)
            ELSE IF object_qnode.has_ids /\ object_qnode.ids_null
            THEN Raise(f2, <<>>)
            ELSE IF node_ids = {}
            THEN Reject(f2, "COHD TRAPI requires at least one node to have an ID", <<>>)
            ELSE ResolveAnchor(s, f2, node_ids)

\* A variant of the predicate check that stops at the first predicate that
\* has a supported descendant.
RECURSIVE CheckPredicatesUntilSupported(_, _, _)
CheckPredicatesUntilSupported(preds, i, supported) ==
    IF supported THEN "ok"
    ELSE IF i > Len(preds) THEN "unsupported"
    ELSE IF ~is_predicate(preds[i]) THEN "unknown"
    ELSE CheckPredicatesUntilSupported(preds, i + 1,
            predicate_descendants(preds[i]) \cap supported_edge_types # {})

\* Line 307: _query_edge_predicates is assigned as soon as the loop meets a
\* predicate with a supported descendant.
SupportedSeen(preds) ==
    \E i \in 1..Len(preds) :
        /\ \A j \in 1..i : is_predicate(preds[j])
        /\ predicate_descendants(preds[i]) \cap supported_edge_types # {}

\* Lines 280-316: the edge and its predicates.
RECURSIVE CheckPredicates(_, _, _)
CheckPredicates(preds, i, supported) ==
    IF i > Len(preds) THEN (IF supported THEN "ok" ELSE "unsupported")
    ELSE IF ~is_predicate(preds[i]) THEN "unknown"
    ELSE CheckPredicates(preds, i + 1,
            supported \/ predicate_descendants(preds[i]) \cap supported_edge_types # {})

InterpretEdge(s, f) ==
    IF Cardinality(DOMAIN s.edges) # 1
    THEN Reject(f, "COHD reasoner only supports 1-hop queries", <<>>)
    ELSE
    LET key == CHOOSE k \in DOMAIN s.edges : TRUE
        edge == s.edges[key]
        f1 == [f EXCEPT !.query_edge_key = key,
                        !.query_edge = [subject |-> edge.subject, object |-> edge.object],
                        !.query_edge_predicates =
                            IF ~edge.has_predicates THEN <<default_predicate>>
                            ELSE IF SupportedSeen(edge.predicates) THEN edge.predicates
                            ELSE None]
        verdict == IF edge.has_predicates THEN CheckPredicates(edge.predicates, 1, FALSE) ELSE "ok"
    IN  IF verdict = "unknown"
        THEN Reject(f1, "predicate was not recognized as a biolink predicate", <<>>)
        ELSE IF verdict = "unsupported"
        THEN Reject(f1, "None of the predicates are supported by COHD.", <<>>)
        ELSE ChooseAnchor(s, f1)

\* Lines 274-278: max_results.
Truthy(x) ==
    CASE x.t = "num" -> x.v # 0
      [] x.t = "bool" -> x.b
      [] x.t = "str" -> TRUE
      [] OTHER -> FALSE

Min(a, b) == IF a <= b THEN a ELSE b

MaxResults(f, max_results) ==
    IF Truthy(max_results)
    THEN Min(IF max_results.t = "bool" THEN 1 ELSE max_results.v, limit_max_results)
    ELSE f.max_results

\* Lines 213-278: query_options.
InterpretOptions(s, f) ==
    LET o == s.options
        method == IF o.method.t = "str" /\ o.method.s # "" THEN o.method.s
                  ELSE default_method
        f1 == [f EXCEPT
                 !.method = method,
                 !.dataset_id =
                     IF IsNum(o.dataset_id) /\ NumberValue(o.dataset_id) # 0
                     THEN NumberValue(o.dataset_id)
                     ELSE default_dataset_id,
                 !.min_cooccurrence =
                     IF IsNum(o.min_cooccurrence) THEN NumberValue(o.min_cooccurrence)
                     ELSE default_min_cooccurrence,
                 !.confidence_interval =
                     IF IsNum(o.confidence_interval) /\ NumberValue(o.confidence_interval) >= 0
                        /\ NumberValue(o.confidence_interval) < 100
                     THEN NumberValue(o.confidence_interval)
                     ELSE default_confidence_interval,
                 !.local_oxo =
                     IF o.local_oxo.t = "bool" THEN o.local_oxo.b ELSE default_local_oxo,
                 !.mapping_distance =
                     IF IsNum(o.mapping_distance) THEN NumberValue(o.mapping_distance)
                     ELSE default_mapping_distance,
                 !.concept_mapper =
                     IF o.ontology_targets.t = "dict" THEN "ontology_targets"
                     ELSE "default_ontology_map",
                 !.biolink_only =
                     IF o.biolink_only.t = "bool" THEN o.biolink_only.b
                     ELSE default_biolink_only]
    IN  IF method \notin supported_query_methods
        THEN Reject([f EXCEPT !.method = method], "Query method not supported", <<>>)
        ELSE IF o.max_results.t = "str"
        THEN Raise(f1, <<>>)
        ELSE InterpretEdge(s, [f1 EXCEPT !.max_results = MaxResults(f1, o.max_results)])

\* Lines 174-211.
_interpret_query(s) ==
    IF s.body = "bad_json"
    THEN Reject(InitFields, "Request body is not valid JSON", <<>>)
    ELSE IF s.body = "none"
    THEN Reject(InitFields, "Missing JSON payload", <<>>)
    ELSE LET verdict == _check_query_input(s)
         IN  IF verdict # "ok"
             THEN Reject(InitFields, verdict, <<>>)
             ELSE InterpretOptions(s, [InitFields EXCEPT !.valid_query = TRUE])

(***************************************************************************)
(* The statistics store (query_cohd_mysql) and the helpers of              *)
(* cohd_trapi.py that work on its records.                                 *)
(***************************************************************************)
\* omop_concept_definition: name, domain and class of a concept.
omop_concept_definition(c) ==
    [concept_name |-> <<"concept", c>>,
     domain_id |-> IF c = 1 THEN "Condition" ELSE "Drug",
     concept_class_id |-> IF c = 1 THEN "Clinical Finding"
                          ELSE IF c = 2 THEN "Ingredient" ELSE "Clinical Drug"]

\* query_association: the records of the store for concept_id_1, narrowed to
\* concept_id_2 or to a domain and class when these are given.  The store
\* keeps its records in descending order of score.
query_association(s, concept_id_1, concept_id_2, domain_id, concept_class_id) ==
    LET def(r) == omop_concept_definition(r.concept_id_2)
        fits(r) ==
            /\ concept_id_2 # NoConcept => r.concept_id_2 = concept_id_2
            /\ domain_id # None => def(r).domain_id = domain_id
            /\ concept_class_id # None => def(r).concept_class_id = concept_class_id
        found == SelectSeq(s.store, fits)
    IN  [i \in 1..Len(found) |->
            [concept_id_1 |-> concept_id_1,
             concept_id_2 |-> found[i].concept_id_2,
             concept_2_name |-> found[i].concept_2_name,
             concept_2_domain |-> def(found[i]).domain_id,
             cooccurrence |-> found[i].cooccurrence,
             score |-> found[i].score,
             significant |-> found[i].significant]]

\* sort_cohd_results: a stable sort in descending order of score.
RECURSIVE InsertSorted(_, _)
InsertSorted(sorted, r) ==
    IF sorted = <<>> THEN <<r>>
    ELSE IF Head(sorted).score >= r.score
    THEN <<Head(sorted)>> \o InsertSorted(Tail(sorted), r)
    ELSE <<r>> \o sorted

RECURSIVE sort_cohd_results(_)
sort_cohd_results(rs) ==
    IF rs = <<>> THEN <<>>
    ELSE InsertSorted(sort_cohd_results(SubSeq(rs, 1, Len(rs) - 1)), rs[Len(rs)])

\* ResultCriteria.check with the three criteria functions.
check(c, r) ==
    CASE c.function = "criteria_min_cooccurrence" -> r.cooccurrence >= c.arg
      [] c.function = "criteria_threshold" -> r.score >= c.arg
      [] c.function = "criteria_confidence" -> r.significant

\* map_omop_domain_to_blm_class.
map_omop_domain_to_blm_class(domain) ==
    IF domain = "Condition" THEN "biolink:DiseaseOrPhenotypicFeature" ELSE "biolink:Drug"

(***************************************************************************)
(* The knowledge graph builder.  st is the part of the instance that       *)
(* _add_cohd_result works on: [kg_nodes, kgraph, results, calls].          *)
(***************************************************************************)
\* A variant of the node creation that prefers the mapper's identifier to
\* the identifier of the qnode.
NewNodeMappingFirst(s, internal_id, concept_id, concept_name, domain, query_node_curie) ==
    LET concept_def == omop_concept_definition(concept_id)
        name == IF concept_name # NoName THEN concept_name ELSE concept_def.concept_name
        dom == IF domain # None THEN domain ELSE concept_def.domain_id
        omop_curie == omop_concept_curie(concept_id)
        mapping == s.from_omop[concept_id]
        by_query == query_node_curie # NoCurie
        primary_curie == IF mapping # NoCurie THEN mapping
                         ELSE IF by_query THEN query_node_curie
                         ELSE omop_curie
        primary_label == IF mapping # NoCurie THEN <<"label", mapping[2]>> ELSE name
    IN  [omop_id |-> concept_id,
         name |-> name,
         domain |-> dom,
         internal_id |-> internal_id,
         primary_curie |-> primary_curie,
         in_kgraph |-> FALSE,
         biolink_compliant |-> (by_query \/ mapping # NoCurie),
         kg_node |-> [name |-> primary_label,
                      categories |-> <<map_omop_domain_to_blm_class(dom)>>,
                      concept_id |-> omop_curie,
                      concept_name |-> name,
                      domain |-> dom]]

\* Lines 648-728: the node created for a concept that is not in the cache.
NewNode(s, internal_id, concept_id, concept_name, domain, query_node_curie) ==
    LET concept_def == omop_concept_definition(concept_id)
        name == IF concept_name # NoName THEN concept_name ELSE concept_def.concept_name
        dom == IF domain # None THEN domain ELSE concept_def.domain_id
        omop_curie == omop_concept_curie(concept_id)
        mapping == s.from_omop[concept_id]
        by_query == query_node_curie # NoCurie
        primary_curie == IF by_query THEN query_node_curie
                         ELSE IF mapping # NoCurie THEN mapping
                         ELSE omop_curie
        primary_label == IF mapping # NoCurie THEN <<"label", mapping[2]>> ELSE name
    IN  [omop_id |-> concept_id,
         name |-> name,
         domain |-> dom,
         internal_id |-> internal_id,
         primary_curie |-> primary_curie,
         in_kgraph |-> FALSE,
         biolink_compliant |-> (by_query \/ mapping # NoCurie),
         kg_node |-> [name |-> primary_label,
                      categories |-> <<map_omop_domain_to_blm_class(dom)>>,
                      concept_id |-> omop_curie,
                      concept_name |-> name,
                      domain |-> dom]]

\* A variant of _get_kg_node that puts a node it creates into the knowledge
\* graph at once.
GetKgNodeInserted(st, s, concept_id, concept_name, domain, query_node_curie) ==
    IF concept_id \in DOMAIN st.kg_nodes
    THEN st
    ELSE LET node == NewNode(s, Cardinality(DOMAIN st.kg_nodes), concept_id,
                             concept_name, domain, query_node_curie)
         IN  [st EXCEPT
                !.kg_nodes = Put(@, concept_id, node),
                !.kgraph.nodes = Put(@, node.primary_curie, node.kg_node),
                !.calls.omop_concept_definition = Append(@, concept_id),
                !.calls.map_from_omop = Append(@, concept_id)]

\* A variant of _get_kg_node that asks the collaborators again for a concept
\* it has in the cache.
GetKgNodeLookupAgain(st, s, concept_id, concept_name, domain, query_node_curie) ==
    [st EXCEPT
        !.kg_nodes = IF concept_id \in DOMAIN st.kg_nodes THEN @
                     ELSE Put(@, concept_id,
                              NewNode(s, Cardinality(DOMAIN st.kg_nodes), concept_id,
                                      concept_name, domain, query_node_curie)),
        !.calls.omop_concept_definition = Append(@, concept_id),
        !.calls.map_from_omop = Append(@, concept_id)]

\* Lines 628-731.
_get_kg_node(st, s, concept_id, concept_name, domain, query_node_curie) ==
    IF concept_id \in DOMAIN st.kg_nodes
    THEN st
    ELSE [st EXCEPT
            !.kg_nodes = Put(@, concept_id,
                             NewNode(s, Cardinality(DOMAIN st.kg_nodes), concept_id,
                                     concept_name, domain, query_node_curie)),
            !.calls.omop_concept_definition = Append(@, concept_id),
            !.calls.map_from_omop = Append(@, concept_id)]

\* A variant of _add_kg_node that files the node under its OMOP identifier.
AddKgNodeUnderOmopCurie(st, concept_id) ==
    LET node == st.kg_nodes[concept_id]
    IN  IF ~node.in_kgraph
        THEN [st EXCEPT !.kgraph.nodes = Put(@, node.kg_node.concept_id, node.kg_node),
                        !.kg_nodes[concept_id].in_kgraph = TRUE]
        ELSE st

\* Lines 733-749.
_add_kg_node(st, concept_id) ==
    LET node == st.kg_nodes[concept_id]
    IN  IF ~node.in_kgraph
        THEN [st EXCEPT !.kgraph.nodes = Put(@, node.primary_curie, node.kg_node),
                        !.kg_nodes[concept_id].in_kgraph = TRUE]
        ELSE st

\* A variant of the edge id that counts the nodes of the knowledge graph.
EdgeIdByNodeCount(st) == <<"ke", Cardinality(DOMAIN st.kgraph.nodes)>>

\* Lines 751-840: returns st with the edge added; the edge id is the number
\* of edges before the call.
EdgeId(st) == <<"ke", Cardinality(DOMAIN st.kgraph.edges)>>

_add_kg_edge(st, subject_id, object_id, cohd_result) ==
    LET st1 == _add_kg_node(st, subject_id)
        st2 == _add_kg_node(st1, object_id)
        kg_edge == [predicate |-> default_predicate,
                    subject |-> st2.kg_nodes[subject_id].primary_curie,
                    object |-> st2.kg_nodes[object_id].primary_curie,
                    attributes |-> [cooccurrence |-> cohd_result.cooccurrence,
                                    score |-> cohd_result.score,
                                    significant |-> cohd_result.significant]]
    IN  [st2 EXCEPT !.kgraph.edges = Put(@, EdgeId(st2), kg_edge)]

\* A variant of _add_result that binds the two qnode keys the other way round.
AddResultSwapped(st, f, kg_node_1_id, kg_node_2_id, kg_edge_id) ==
    LET result ==
          [node_bindings |->
              [k \in {f.concept_1_qnode_key, f.concept_2_qnode_key} |->
                  IF k = f.concept_2_qnode_key THEN kg_node_1_id ELSE kg_node_2_id],
           edge_bindings |-> [k \in {f.query_edge_key} |-> kg_edge_id]]
    IN  [st EXCEPT !.results = Append(@, result)]

\* Lines 597-626.
_add_result(st, f, kg_node_1_id, kg_node_2_id, kg_edge_id) ==
    LET result ==
          [node_bindings |->
              [k \in {f.concept_1_qnode_key, f.concept_2_qnode_key} |->
                  IF k = f.concept_2_qnode_key THEN kg_node_2_id ELSE kg_node_1_id],
           edge_bindings |-> [k \in {f.query_edge_key} |-> kg_edge_id]]
    IN  [st EXCEPT !.results = Append(@, result)]

\* A variant of the criteria gate that asks for any criterion, not all.
PassesAnyCriterion(criteria, cohd_result) ==
    \E i \in 1..Len(criteria) : check(criteria[i], cohd_result)

\* A variant of the evaluation that stops at the first criterion that
\* fails.
RECURSIVE EvaluationsUntilFailure(_, _)
EvaluationsUntilFailure(criteria, cohd_result) ==
    IF criteria = <<>> THEN <<>>
    ELSE IF ~check(Head(criteria), cohd_result) THEN <<FALSE>>
    ELSE <<TRUE>> \o EvaluationsUntilFailure(Tail(criteria), cohd_result)

\* Line 559: the list [c.check(cohd_result) for c in criteria], built in
\* full before all() looks at it.
Evaluations(criteria, cohd_result) ==
    [i \in 1..Len(criteria) |-> check(criteria[i], cohd_result)]

\* Lines 557-560: whether the record passes every criterion.
PassesCriteria(criteria, cohd_result) ==
    LET checks == Evaluations(criteria, cohd_result)
    IN  \A i \in DOMAIN checks : checks[i]

\* A variant of the biolink-only check that reads the option inverted.
ExcludedInverted(f, node) == ~f.biolink_only /\ ~node.biolink_compliant

\* Lines 567 and 579: whether the biolink-only policy discards the record
\* for this node.
Excluded(f, node) == f.biolink_only /\ ~node.biolink_compliant

\* A variant of the lines after the criteria that always makes the node of
\* concept 1 the subject of the edge.
AddAcceptedAnchorSubject(st, s, f, cohd_result) ==
    LET concept_1_id == cohd_result.concept_id_1
        concept_2_id == cohd_result.concept_id_2
        st1 == _get_kg_node(st, s, concept_1_id, NoName, None, f.concept_1_qnode_curie)
        st2 == _get_kg_node(st1, s, concept_2_id, cohd_result.concept_2_name,
                            cohd_result.concept_2_domain, f.concept_2_qnode_curie)
    IN  IF Excluded(f, st1.kg_nodes[concept_1_id])
        THEN [st |-> st1, outcome |-> "node_1_not_biolink"]
        ELSE IF Excluded(f, st2.kg_nodes[concept_2_id])
        THEN [st |-> st2, outcome |-> "node_2_not_biolink"]
        ELSE IF f.query_edge.subject \in {f.concept_1_qnode_key, f.concept_2_qnode_key}
        THEN LET st3 == _add_kg_edge(st2, concept_1_id, concept_2_id, cohd_result)
             IN  [st |-> _add_result(st3, f, st3.kg_nodes[concept_1_id].primary_curie,
                                     st3.kg_nodes[concept_2_id].primary_curie, EdgeId(st2)),
                  outcome |-> "added"]
        ELSE [st |-> st2, outcome |-> "LookupError"]

\* Lines 562-595: a record that passed the criteria.
AddAccepted(st, s, f, cohd_result) ==
    LET concept_1_id == cohd_result.concept_id_1
        concept_2_id == cohd_result.concept_id_2
        st1 == _get_kg_node(st, s, concept_1_id, NoName, None, f.concept_1_qnode_curie)
        st2 == _get_kg_node(st1, s, concept_2_id, cohd_result.concept_2_name,
                            cohd_result.concept_2_domain, f.concept_2_qnode_curie)
    IN  IF Excluded(f, st1.kg_nodes[concept_1_id])
        THEN [st |-> st1, outcome |-> "node_1_not_biolink"]
        ELSE IF Excluded(f, st2.kg_nodes[concept_2_id])
        THEN [st |-> st2, outcome |-> "node_2_not_biolink"]
        ELSE IF f.query_edge.subject = f.concept_1_qnode_key
        THEN LET st3 == _add_kg_edge(st2, concept_1_id, concept_2_id, cohd_result)
             IN  [st |-> _add_result(st3, f, st3.kg_nodes[concept_1_id].primary_curie,
                                     st3.kg_nodes[concept_2_id].primary_curie, EdgeId(st2)),
                  outcome |-> "added"]
        ELSE IF f.query_edge.subject = f.concept_2_qnode_key
        THEN LET st3 == _add_kg_edge(st2, concept_2_id, concept_1_id, cohd_result)
             IN  [st |-> _add_result(st3, f, st3.kg_nodes[concept_1_id].primary_curie,
                                     st3.kg_nodes[concept_2_id].primary_curie, EdgeId(st2)),
                  outcome |-> "added"]
        ELSE [st |-> st2, outcome |-> "LookupError"]

\* A variant of _add_cohd_result that builds the nodes before it filters.
AddCohdResultNodesFirst(st, s, f, cohd_result) ==
    LET built == _get_kg_node(
                    _get_kg_node(st, s, cohd_result.concept_id_1, NoName, None,
                                 f.concept_1_qnode_curie),
                    s, cohd_result.concept_id_2, cohd_result.concept_2_name,
                    cohd_result.concept_2_domain, f.concept_2_qnode_curie)
    IN  IF ~PassesCriteria(f.criteria, cohd_result)
        THEN [st |-> built, outcome |-> "filtered"]
        ELSE AddAccepted(st, s, f, cohd_result)

\* Lines 545-595: [st, outcome].
_add_cohd_result(st, s, f, cohd_result) ==
    IF ~PassesCriteria(f.criteria, cohd_result)
    THEN [st |-> st, outcome |-> "filtered"]
    ELSE AddAccepted(st, s, f, cohd_result)

(***************************************************************************)
(* operate() and _serialize_trapi_response.                                *)
(***************************************************************************)
Orders(S) ==
    {o \in SeqsUpTo(S, Cardinality(S)) : Len(o) = Cardinality(S) /\ Range(o) = S}

\* Lines 515-524: one call per (domain, class) pair, in the iteration order
\* of the set, the returned lists concatenated.
RECURSIVE QueryPairs(_, _, _)
QueryPairs(s, f, order) ==
    IF order = <<>> THEN <<>>
    ELSE query_association(s, f.concept_1_omop_id, f.concept_2_omop_id,
                           Head(order)[1], Head(order)[2])
         \o QueryPairs(s, f, Tail(order))

\* A variant of the test of line 512 that never queries by pair.
ByPairsNever(f) == f.concept_2_omop_id # NoConcept /\ f.domain_class_pairs.pairs # {}

\* Lines 510-537: the sorted records, given the iteration order of the pairs.
ByPairs(f) == f.concept_2_omop_id = NoConcept /\ f.domain_class_pairs.pairs # {}

\* A variant of the retrieval that leaves the combined list as the calls
\* returned it.
RetrievedUnsorted(s, f, order) ==
    IF ByPairs(f)
    THEN QueryPairs(s, f, order)
    ELSE query_association(s, f.concept_1_omop_id, f.concept_2_omop_id, None, None)

Retrieved(s, f, order) ==
    sort_cohd_results(
        IF ByPairs(f)
        THEN QueryPairs(s, f, order)
        ELSE query_association(s, f.concept_1_omop_id, f.concept_2_omop_id, None, None))

AssociationCalls(f, order) ==
    IF ByPairs(f)
    THEN [i \in 1..Len(order) |->
            [concept_id_2 |-> f.concept_2_omop_id,
             domain_id |-> order[i][1], concept_class_id |-> order[i][2]]]
    ELSE <<[concept_id_2 |-> f.concept_2_omop_id,
            domain_id |-> None, concept_class_id |-> None]>>

\* Lines 858-878: the envelope.
_serialize_trapi_response(rs, kg) ==
    [kind |-> "envelope", code |-> 200,
     status |-> IF Len(rs) = 0 THEN "NoResults" ELSE "Success",
     description |-> "COHD returned results",
     results_null |-> FALSE, results |-> rs,
     knowledge_graph_null |-> FALSE, knowledge_graph |-> kg]

\* A variant of the loop that only stops at the end of the records.
LoopEndsAtLastRecord(f, rs, n, i) == i >= n

\* Lines 855-856: whether the loop stops after the record at position i.
LoopEnds(f, rs, n, i) == Len(rs) >= f.max_results \/ i >= n

\* Lines 850-856: the loop over the records from position i on, as a
\* function of the state it starts from.
RECURSIVE SerializeFrom(_, _, _, _, _)
SerializeFrom(st, s, f, rs, i) ==
    IF i > Len(rs) THEN st
    ELSE LET r == _add_cohd_result(st, s, f, rs[i])
         IN  IF r.outcome = "LookupError" \/ LoopEnds(f, r.st.results, Len(rs), i)
             THEN r.st
             ELSE SerializeFrom(r.st, s, f, rs, i + 1)

\* The results and the knowledge graph of a run of operate() in which the
\* set of (domain, class) pairs iterates in the given order.
RunOutcome(s, f, order) ==
    LET st == SerializeFrom([kg_nodes |-> EmptyMap, kgraph |-> EmptyGraph,
                             results |-> <<>>,
                             calls |-> [map_to_omop |-> <<>>, query_association |-> <<>>,
                                        omop_concept_definition |-> <<>>,
                                        map_from_omop |-> <<>>]],
                            s, f, Retrieved(s, f, order), 1)
    IN  [results |-> st.results, knowledge_graph |-> st.kgraph]

(***************************************************************************)
(* Scenarios: the requests and the collaborator stubs the model runs.      *)
(***************************************************************************)
QNode(has_ids, ids, has_categories, categories, constraints, contraints) ==
    [has_ids |-> has_ids, ids |-> ids, ids_null |-> FALSE,
     has_categories |-> has_categories, categories |-> categories,
     constraints |-> constraints, contraints |-> contraints]

Anchored == QNode(TRUE, <<Curie(1)>>, FALSE, <<>>, "absent", FALSE)
Open == QNode(FALSE, <<>>, FALSE, <<>>, "absent", FALSE)

QEdge(subject, object, has_predicates, predicates) ==
    [subject |-> subject, object |-> object,
     has_predicates |-> has_predicates, predicates |-> predicates]

NoOptions ==
    [method |-> Absent, dataset_id |-> Absent, min_cooccurrence |-> Absent,
     confidence_interval |-> Absent, local_oxo |-> Absent, mapping_distance |-> Absent,
     ontology_targets |-> Absent, threshold |-> Absent, biolink_only |-> Absent,
     max_results |-> Absent]

Record(c2, name, cooccurrence, score, significant) ==
    [concept_id_2 |-> c2, concept_2_name |-> name, cooccurrence |-> cooccurrence,
     score |-> score, significant |-> significant]

Name(n) == <<"name", n>>

IsSorted(rs) == \A i \in 1..(Len(rs) - 1) : rs[i].score >= rs[i + 1].score

Stores(records) == {rs \in SeqsUpTo(records, MaxRecs) : IsSorted(rs)}

OneRecord == <<Record(2, Name(1), 3, 2, TRUE)>>

Base ==
    [body |-> "dict", schema_valid |-> TRUE, query_graph |-> "graph",
     nodes |-> [k \in {"n0", "n1"} |-> IF k = "n0" THEN Anchored ELSE Open],
     edges |-> [k \in {"e0"} |-> QEdge("n0", "n1", FALSE, <<>>)],
     options |-> NoOptions,
     to_omop |-> [c \in Curies |-> c[2]],
     from_omop |-> [c \in Concepts |-> <<"EXT", 10 + c>>],
     store |-> OneRecord]

\* Malformed bodies and query graphs of every node and edge count.
ShapeScenarios ==
    {[Base EXCEPT !.body = b, !.schema_valid = v, !.query_graph = g,
                  !.nodes = [k \in ns |-> IF k = "n0" THEN Anchored ELSE Open],
                  !.edges = [k \in es |-> QEdge("n0", "n1", FALSE, <<>>)]] :
        b \in {"bad_json", "none", "dict"}, v \in BOOLEAN,
        g \in {"null", "empty", "graph"},
        ns \in {{}, {"n0"}, {"n0", "n1"}, {"n0", "n1", "n2"}},
        es \in {{}, {"e0"}, {"e0", "e1"}}}

\* Identifier lists on both qnodes, both edge directions, every mapping.
IdLists == SeqsUpTo(Curies, MaxIds)

\* The 'ids' key of a qnode: absent, null, or a list that may be empty.
IdChoices ==
    {<<FALSE, <<>>, FALSE>>, <<TRUE, <<>>, TRUE>>} \cup {<<TRUE, l, FALSE>> : l \in IdLists}

WithIds(i) == [Open EXCEPT !.has_ids = i[1], !.ids = i[2], !.ids_null = i[3]]

IdScenarios ==
    {[Base EXCEPT !.nodes = [k \in {"n0", "n1"} |->
                               IF k = "n0" THEN WithIds(i0) ELSE WithIds(i1)],
                  !.edges = [k \in {"e0"} |-> QEdge(e[1], e[2], FALSE, <<>>)],
                  !.to_omop = m] :
        i0 \in IdChoices, i1 \in IdChoices,
        e \in {<<"n0", "n1">>, <<"n1", "n0">>},
        m \in [Curies -> {NoConcept, 1, 2}]}

\* Constraints on either qnode, whichever is the anchor, mapped or not.
ConstraintChoices == {"absent", "empty", "nonempty"}

ConstraintScenarios ==
    {[Base EXCEPT !.nodes = [k \in {"n0", "n1"} |->
                               IF k = "n0"
                               THEN [WithIds(i0) EXCEPT !.constraints = c0, !.contraints = t0]
                               ELSE [WithIds(i1) EXCEPT !.constraints = c1, !.contraints = t1]],
                  !.to_omop = m] :
        i0 \in {<<TRUE, <<Curie(1)>>, FALSE>>},
        i1 \in {<<FALSE, <<>>, FALSE>>, <<TRUE, <<Curie(2)>>, FALSE>>},
        c0 \in ConstraintChoices, c1 \in ConstraintChoices,
        t0 \in BOOLEAN, t1 \in BOOLEAN,
        m \in {[c \in Curies |-> c[2]], [c \in Curies |-> IF c[2] = 1 THEN 1 ELSE NoConcept],
               [c \in Curies |-> NoConcept]}}

\* Predicates on the edge and edges that name a qnode the graph lacks.
PredicateScenarios ==
    {[Base EXCEPT !.edges = [k \in {"e0"} |-> QEdge(e[1], e[2], p[1], p[2])]] :
        e \in {"n0", "n1", "nx"} \X {"n0", "n1", "nx"},
        p \in {<<FALSE, <<>> >>} \cup {<<TRUE, l>> : l \in SeqsUpTo(Predicates, 2)}}

\* Categories on the target qnode.
CategoryScenarios ==
    {[Base EXCEPT !.nodes["n1"] = [Open EXCEPT !.has_categories = c[1], !.categories = c[2]],
                  !.store = st] :
        c \in {<<TRUE, l>> : l \in SeqsUpTo(Categories, 2)},
        st \in {OneRecord, <<Record(2, Name(1), 3, 2, TRUE), Record(3, Name(1), 3, 2, TRUE)>>,
                 <<Record(3, Name(1), 3, 2, TRUE), Record(2, Name(1), 3, 1, TRUE)>>}}

\* Query options.
OptionScenarios ==
    {[Base EXCEPT !.options = [NoOptions EXCEPT !.method = m, !.min_cooccurrence = c,
                                                !.confidence_interval = i, !.threshold = t]] :
        m \in {Absent, Num(1), [t |-> "str", s |-> ""], [t |-> "str", s |-> "obsExpRatio"],
               [t |-> "str", s |-> "chiSquare"], [t |-> "str", s |-> "unknownMethod"]},
        c \in {Absent, Str, Bool(TRUE), Num(0), Num(3), Num(4)},
        i \in {Absent, Str, Num(0), Num(50), Num(100)},
        t \in {Absent, Str, Num(2), Num(3)}}
    \cup
    {[Base EXCEPT !.options = [NoOptions EXCEPT !.biolink_only = b, !.max_results = x]] :
        b \in {Absent, Str, Bool(TRUE), Bool(FALSE)},
        x \in {Absent, Str, Bool(TRUE), Num(0), Num(1), Num(5)}}
    \cup
    {[Base EXCEPT !.options = [NoOptions EXCEPT !.dataset_id = d, !.local_oxo = l,
                                                !.mapping_distance = md,
                                                !.ontology_targets = ot]] :
        d \in {Absent, Str, Num(0), Num(2)},
        l \in {Absent, Str, Bool(FALSE)},
        md \in {Absent, Str, Num(1)},
        ot \in {Absent, Str, Dict}}

\* Record lists that exercise the node cache and the biolink-only policy:
\* every record passes the criteria; names and mappings vary.
GraphRecords ==
    {Record(1, Name(1), 3, 2, TRUE)}
    \cup {Record(c, Name(n), 3, 2, TRUE) : c \in {2, 3}, n \in 1..2}

GraphScenarios ==
    {[Base EXCEPT !.options = [NoOptions EXCEPT !.biolink_only = o[1], !.max_results = o[2]],
                  !.from_omop = [c \in Concepts |-> IF c = 2 THEN m2
                                                   ELSE IF c = 3 THEN m3 ELSE <<"EXT", 11>>],
                  !.store = st] :
        o \in {<<Absent, Absent>>, <<Bool(FALSE), Absent>>,
               <<Absent, Num(1)>>, <<Absent, Num(0 - 1)>>},
        m2 \in {NoCurie, Curie(1), <<"EXT", 12>>},
        m3 \in {NoCurie, <<"EXT", 12>>},
        st \in Stores(GraphRecords)}

\* Record lists that exercise the criteria, the sort and the result limit.
FilterRecords ==
    {Record(2, Name(1), n, sco, sig) : n \in {1, 3}, sco \in {1, 2}, sig \in BOOLEAN}
    \cup {Record(3, Name(1), 3, sco, TRUE) : sco \in {1, 2}}

FilterScenarios ==
    {[Base EXCEPT !.options = [NoOptions EXCEPT !.min_cooccurrence = c, !.threshold = t,
                                                !.max_results = x],
                  !.store = st] :
        c \in {Absent, Num(2)},
        t \in {Absent, Num(2)},
        x \in {Absent, Num(1)},
        st \in Stores(FilterRecords)}

Scenarios ==
    ShapeScenarios \cup IdScenarios \cup ConstraintScenarios \cup PredicateScenarios
    \cup CategoryScenarios \cup OptionScenarios \cup GraphScenarios \cup FilterScenarios

(***************************************************************************)
(* The state machine.                                                      *)
(***************************************************************************)
NoCalls ==
    [map_to_omop |-> <<>>, query_association |-> <<>>,
     omop_concept_definition |-> <<>>, map_from_omop |-> <<>>]

Init ==
    /\ sc \in Scenarios
    /\ pc = "new"
    /\ q = InitFields
    /\ cohd_results = <<>>
    /\ idx = 0
    /\ kg_nodes = EmptyMap
    /\ kgraph = EmptyGraph
    /\ results = <<>>
    /\ calls = NoCalls
    /\ log = <<>>
    /\ first_seen = EmptyMap
    /\ response = NoResponse

\* __init__: the constructor runs _interpret_query.  An exception leaves no
\* instance to call operate() on.
Interpret ==
    /\ pc = "new"
    /\ LET r == _interpret_query(sc)
       IN  /\ q' = r.q
           /\ calls' = [calls EXCEPT !.map_to_omop = r.map_to_omop]
           /\ pc' = IF r.raised THEN "done" ELSE "interpreted"
           /\ response' = IF r.raised THEN Raised ELSE response
    /\ UNCHANGED <<sc, cohd_results, idx, kg_nodes, kgraph, results, log, first_seen>>

\* A variant of operate() that queries the store before it looks at
\* _valid_query.
ReturnInvalidAfterRetrieval ==
    /\ pc = "interpreted"
    /\ ~q.valid_query
    /\ calls' = [calls EXCEPT !.query_association = AssociationCalls(q, <<>>)]
    /\ response' = q.invalid_query_response
    /\ pc' = "done"
    /\ UNCHANGED <<sc, q, cohd_results, idx, kg_nodes, kgraph, results, log, first_seen>>

\* operate() on an invalid query (lines 541-543).
ReturnInvalid ==
    /\ pc = "interpreted"
    /\ ~q.valid_query
    /\ response' = q.invalid_query_response
    /\ pc' = "done"
    /\ UNCHANGED <<sc, q, cohd_results, idx, kg_nodes, kgraph, results, calls, log, first_seen>>

\* operate() on a valid query, up to the sort (lines 510-537).
Retrieve ==
    /\ pc = "interpreted"
    /\ q.valid_query
    /\ \E order \in Orders(q.domain_class_pairs.pairs) :
          /\ cohd_results' = Retrieved(sc, q, order)
          /\ calls' = [calls EXCEPT !.query_association = AssociationCalls(q, order)]
    /\ idx' = 1
    /\ pc' = IF cohd_results' = <<>> THEN "respond" ELSE "loop"
    /\ UNCHANGED <<sc, q, kg_nodes, kgraph, results, log, first_seen, response>>

\* One pass of the loop of _serialize_trapi_response (lines 851-856).
AddCohdResult ==
    /\ pc = "loop"
    /\ LET st == [kg_nodes |-> kg_nodes, kgraph |-> kgraph, results |-> results,
                  calls |-> calls]
           r == _add_cohd_result(st, sc, q, cohd_results[idx])
       IN  /\ kg_nodes' = r.st.kg_nodes
           /\ kgraph' = r.st.kgraph
           /\ results' = r.st.results
           /\ calls' = r.st.calls
           /\ log' = Append(log, [outcome |-> r.outcome, record |-> cohd_results[idx],
                                   checks |-> Evaluations(q.criteria, cohd_results[idx])])
           /\ first_seen' = [c \in DOMAIN r.st.kg_nodes |->
                                IF c \in DOMAIN first_seen THEN first_seen[c]
                                ELSE r.st.kg_nodes[c].kg_node]
           /\ IF r.outcome = "LookupError"
              THEN pc' = "done" /\ response' = Raised /\ idx' = idx
              ELSE /\ response' = response
                   /\ idx' = idx + 1
                   /\ pc' = IF LoopEnds(q, r.st.results, Len(cohd_results), idx)
                            THEN "respond" ELSE "loop"
    /\ UNCHANGED <<sc, q, cohd_results>>

\* The rest of _serialize_trapi_response (lines 858-878).
Respond ==
    /\ pc = "respond"
    /\ response' = _serialize_trapi_response(results, kgraph)
    /\ pc' = "done"
    /\ UNCHANGED <<sc, q, cohd_results, idx, kg_nodes, kgraph, results, calls, log, first_seen>>

Next == Interpret \/ ReturnInvalid \/ Retrieve \/ AddCohdResult \/ Respond

Spec == Init /\ [][Next]_vars

(***************************************************************************)
(* Properties.                                                             *)
(***************************************************************************)
Served == pc = "done" /\ response.kind = "envelope" /\ ~response.results_null

WellFormed ==
    /\ sc.body = "dict" /\ sc.schema_valid /\ sc.query_graph = "graph"
    /\ Cardinality(DOMAIN sc.nodes) = 2 /\ Cardinality(DOMAIN sc.edges) = 1

Last == log[Len(log)]

Accepted == {i \in 1..Len(log) : log[i].outcome = "added"}

Refs(r) == {r.concept_id_1, r.concept_id_2}

Holds(criteria, r) == \A i \in 1..Len(criteria) : check(criteria[i], r)

\* The max_results the request asks for: the user's number capped at the
\* ceiling, the default when the option is absent.
EffectiveMaxResults ==
    IF IsNum(sc.options.max_results)
    THEN Min(sc.options.max_results.v, limit_max_results)
    ELSE IF sc.options.max_results = Absent THEN default_max_results
    ELSE q.max_results

\* C1: the number of results in the response of operate() never exceeds the
\* effective max_results (the user value capped at the ceiling, or the
\* default when none is given).
C1_ResultsWithinMaxResults ==
    (Served /\ response.results # <<>>) => Len(response.results) <= EffectiveMaxResults

\* C2: every node id bound in a result is a key of knowledge_graph['nodes']
\* and every edge id bound in a result is a key of knowledge_graph['edges'].
C2_BindingsInGraph ==
    \A i \in 1..Len(results) :
        /\ \A k \in DOMAIN results[i].node_bindings :
              results[i].node_bindings[k] \in DOMAIN kgraph.nodes
        /\ \A k \in DOMAIN results[i].edge_bindings :
              results[i].edge_bindings[k] \in DOMAIN kgraph.edges

C2_Witness ==
    /\ pc = "done" /\ Len(results) = 2
    /\ Cardinality(DOMAIN kgraph.nodes) = 3

EntriesFor(c) ==
    {k \in DOMAIN kgraph.nodes : kgraph.nodes[k].concept_id = omop_concept_curie(c)}

C4_OneEntryFirstSeen ==
    \A c \in Concepts :
        (\E i, j \in Accepted : i # j /\ c \in Refs(log[i].record) /\ c \in Refs(log[j].record))
        => /\ kg_nodes[c].kg_node = first_seen[c]
           /\ Cardinality(EntriesFor(c)) = 1
           /\ \A k \in EntriesFor(c) : kgraph.nodes[k] = first_seen[c]

\* C5: with biolink_only, no node flagged non-compliant is a value of
\* knowledge_graph['nodes'], cached or not; and a record with a
\* non-compliant node inserts no node and no edge.
NonCompliantAbsent ==
    \A c \in DOMAIN kg_nodes :
        ~kg_nodes[c].biolink_compliant =>
            /\ ~kg_nodes[c].in_kgraph
            /\ \A k \in DOMAIN kgraph.nodes : kgraph.nodes[k] # kg_nodes[c].kg_node

HardRejected == q.invalid_query_response.kind = "rejection"

NothingRetrieved ==
    /\ calls.query_association = <<>>
    /\ calls.omop_concept_definition = <<>>
    /\ calls.map_from_omop = <<>>
    /\ kgraph = EmptyGraph /\ kg_nodes = EmptyMap /\ results = <<>>

ConstraintRejections ==
    {"COHD does not support constraints on a QNode with ids specified",
     "COHD has not yet implemented support of constraints"}

Unmapped(qnode) == \A i \in 1..Len(qnode.ids) : sc.to_omop[qnode.ids[i]] = NoConcept

NothingMapped ==
    /\ calls.map_to_omop # <<>>
    /\ \/ Unmapped(sc.nodes[q.concept_1_qnode_key])
       \/ /\ sc.nodes[q.concept_2_qnode_key].has_ids
          /\ sc.nodes[q.concept_2_qnode_key].ids # <<>>
          /\ Unmapped(sc.nodes[q.concept_2_qnode_key])

C8_CouldNotMapIsSoft ==
    NothingMapped =>
        /\ calls.query_association = <<>>
        /\ ~q.valid_query
        /\ pc = "done" =>
              /\ response.kind = "envelope" /\ response.code = 200
              /\ response.status = "CouldNotMapCurieToLocalKG"
              /\ response.description # ""
              /\ response.results_null /\ response.knowledge_graph_null

C8_Witness ==
    /\ pc = "done" /\ NothingMapped
    /\ ~Unmapped(sc.nodes[q.concept_1_qnode_key])
    /\ response.status = "CouldNotMapCurieToLocalKG"

\* C9: a query is rejected when either qnode carries constraints, the anchor
\* qnode as well as the other one.
C9_ConstraintsReject ==
    (WellFormed /\ \E k \in DOMAIN sc.nodes : sc.nodes[k].constraints = "nonempty")
        => ~Served

\* C10: the shape check accepts a query graph only if it is present,
\* non-empty and has exactly 2 nodes and exactly 1 edge; any other shape is
\* a hard rejection and leaves _valid_query false.
C10_OneHopOnly ==
    (pc # "new" /\ sc.body = "dict" /\ sc.schema_valid)
        => IF sc.query_graph = "graph" /\ Cardinality(DOMAIN sc.nodes) = 2
              /\ Cardinality(DOMAIN sc.edges) = 1
           THEN q.invalid_query_response.kind = "rejection"
                   => q.invalid_query_response.why \notin
                         {"Unsupported query: query_graph missing from query_message or empty",
                          "Unsupported query. Only one-hop queries supported."}
           ELSE /\ ~q.valid_query
                /\ q.invalid_query_response.kind = "rejection"
                /\ q.invalid_query_response.code = 400
                /\ pc = "done" => response = q.invalid_query_response

C10_Witness ==
    /\ pc = "done" /\ sc.body = "dict" /\ sc.schema_valid /\ sc.query_graph = "graph"
    /\ Cardinality(DOMAIN sc.nodes) = 3 /\ Cardinality(DOMAIN sc.edges) = 1
    /\ response.kind = "rejection"

(***************************************************************************)
(* Anchor choice and identifier resolution.                                *)
(***************************************************************************)
\* The request went through the choice of concept_1 (lines 333-349): it
\* passed the shape check, the options, the predicates and the lookup of
\* both qnodes, and no exception ended it.
LateRejections ==
    ConstraintRejections \cup {"COHD TRAPI requires at least one node to have an ID"}

AnchorStage ==
    /\ pc # "new" /\ WellFormed
    /\ q.query_edge_key # None
    /\ q.query_edge.subject \in DOMAIN sc.nodes
    /\ q.query_edge.object \in DOMAIN sc.nodes
    /\ HardRejected => q.invalid_query_response.why \in LateRejections
    /\ response # Raised

SubjectQNode == sc.nodes[q.query_edge.subject]
ObjectQNode == sc.nodes[q.query_edge.object]

HasIdentifiers(qnode) == qnode.has_ids /\ ~qnode.ids_null /\ qnode.ids # <<>>

\* C11: of the requests that are not hard-rejected, the qnode chosen as
\* concept_1 always has a non-empty identifier list; in particular a qnode
\* whose ids list is present but empty is not chosen over a qnode with
\* identifiers.
C11_AnchorHasIdentifiers ==
    (AnchorStage /\ ~HardRejected /\ q.concept_1_qnode_key # None)
        => HasIdentifiers(sc.nodes[q.concept_1_qnode_key])

\* C12: with the key 'ids' on one qnode only, that qnode is concept_1 and
\* the other is concept_2; with the key on both, the object qnode is
\* concept_1 and the subject qnode is concept_2.
C12_SecondEvaluatedWins ==
    AnchorStage =>
        /\ ObjectQNode.has_ids =>
              /\ q.concept_1_qnode_key = q.query_edge.object
              /\ q.concept_2_qnode_key = q.query_edge.subject
        /\ (SubjectQNode.has_ids /\ ~ObjectQNode.has_ids) =>
              /\ q.concept_1_qnode_key = q.query_edge.subject
              /\ q.concept_2_qnode_key = q.query_edge.object
        /\ (~SubjectQNode.has_ids /\ ~ObjectQNode.has_ids) =>
              /\ q.concept_1_qnode_key = None
              /\ q.concept_2_qnode_key = None

C12_Witness ==
    /\ pc = "done" /\ Served
    /\ q.query_edge.subject # q.query_edge.object
    /\ HasIdentifiers(SubjectQNode) /\ HasIdentifiers(ObjectQNode)
    /\ q.concept_1_qnode_key = q.query_edge.object
    /\ q.concept_1_omop_id # q.concept_2_omop_id

\* curie is the first identifier of the qnode's list, in list order, that
\* the resolver maps.
IsFirstMapped(qnode, curie) ==
    \E i \in 1..Len(qnode.ids) :
        /\ qnode.ids[i] = curie
        /\ sc.to_omop[curie] # NoConcept
        /\ \A j \in 1..(i - 1) : sc.to_omop[qnode.ids[j]] = NoConcept

AllIdentifiers == Range(SubjectQNode.ids) \cup Range(ObjectQNode.ids)

\* _interpret_query returned and left the query valid.
ValidQuery == pc # "new" /\ q.valid_query /\ response # Raised

\* C13: map_to_omop is called at most once, and exactly once, with the
\* identifiers of both qnodes, for every request that has an identifier;
\* each qnode with identifiers resolves to the first identifier of its list
\* that has a mapping; nothing _interpret_query chose changes afterwards.
C13_ResolvedOnceFirstMapped ==
    /\ [](/\ Len(calls.map_to_omop) <= 1
          /\ (AnchorStage /\ AllIdentifiers # {}) => calls.map_to_omop = <<AllIdentifiers>>
          /\ ValidQuery =>
                /\ IsFirstMapped(sc.nodes[q.concept_1_qnode_key], q.concept_1_qnode_curie)
                /\ q.concept_1_omop_id = sc.to_omop[q.concept_1_qnode_curie]
                /\ HasIdentifiers(sc.nodes[q.concept_2_qnode_key]) =>
                      /\ IsFirstMapped(sc.nodes[q.concept_2_qnode_key], q.concept_2_qnode_curie)
                      /\ q.concept_2_omop_id = sc.to_omop[q.concept_2_qnode_curie])
    /\ [][pc # "new" => (q' = q /\ calls'.map_to_omop = calls.map_to_omop)]_vars

C13_Witness ==
    /\ pc = "done" /\ Served
    /\ HasIdentifiers(SubjectQNode) /\ HasIdentifiers(ObjectQNode)
    /\ Cardinality(AllIdentifiers) = 2
    /\ calls.map_to_omop = <<AllIdentifiers>>
    /\ Len(sc.nodes[q.concept_1_qnode_key].ids) = 2
    /\ q.concept_1_qnode_curie = sc.nodes[q.concept_1_qnode_key].ids[2]
    /\ q.concept_2_omop_id # NoConcept

(***************************************************************************)
(* Retrieval.                                                              *)
(***************************************************************************)
TargetQNode == sc.nodes[q.concept_2_qnode_key]

\* operate() has issued its retrieval calls.
RetrievalDone == ValidQuery /\ pc \notin {"new", "interpreted"}

\* The target is a set of (domain, class) pairs: no identifiers, and
\* categories without biolink:NamedThing.
PairSetTarget ==
    /\ ~HasIdentifiers(TargetQNode)
    /\ TargetQNode.has_categories /\ TargetQNode.categories # <<>>
    /\ "biolink:NamedThing" \notin Range(_process_qnode_category(TargetQNode.categories))

CallScopes == {<<calls.query_association[i].domain_id,
                 calls.query_association[i].concept_class_id>> :
                  i \in 1..Len(calls.query_association)}

\* C14: a valid query with a pair-set target issues one retrieval call per
\* derived pair, scoped to it; every other valid query issues one call with
\* null domain and class; no call is issued for any other request.
C14_RetrievalCalls ==
    /\ RetrievalDone =>
          IF PairSetTarget
          THEN /\ Len(calls.query_association) = Cardinality(q.domain_class_pairs.pairs)
               /\ CallScopes = q.domain_class_pairs.pairs
               /\ q.domain_class_pairs.pairs =
                     DerivedPairs(_process_qnode_category(TargetQNode.categories))
               /\ \A i \in 1..Len(calls.query_association) :
                     calls.query_association[i].concept_id_2 = NoConcept
          ELSE calls.query_association =
                 <<[concept_id_2 |-> q.concept_2_omop_id,
                    domain_id |-> None, concept_class_id |-> None]>>
    /\ ~RetrievalDone => calls.query_association = <<>>

C14_Witness ==
    /\ pc = "done" /\ Served /\ PairSetTarget
    /\ Cardinality(q.domain_class_pairs.pairs) = 2
    /\ Len(calls.query_association) = 2
    /\ Len(response.results) = 2

\* The request went through the resolution of the anchor (lines 357-383).
TargetStage == AnchorStage /\ q.concept_1_omop_id # NoConcept

\* No category COHD supports is among the descendants of a queried one.
NoPairDerived ==
    \A i \in 1..Len(supported_categories) :
        \A c \in Range(_process_qnode_category(TargetQNode.categories)) :
            supported_categories[i] \notin category_descendants(c)

\* C15: a target without identifiers whose categories (biolink:NamedThing
\* not among them) derive no (domain, class) pair ends the request in the
\* soft unsupported-category envelope, with no retrieval call; a query that
\* stays valid with a pair-set target has a non-empty set.
C15_UnsupportedCategoryIsSoft ==
    /\ (TargetStage /\ PairSetTarget /\ NoPairDerived) =>
          /\ ~q.valid_query
          /\ q.invalid_query_response =
                _trapi_mini_response("UnsupportedQNodeCategory",
                                     "None of the categories are supported by COHD")
          /\ q.invalid_query_response.results_null
          /\ q.invalid_query_response.knowledge_graph_null
          /\ calls.query_association = <<>>
          /\ pc = "done" => response = q.invalid_query_response
    /\ (ValidQuery /\ ~q.domain_class_pairs.none) => q.domain_class_pairs.pairs # {}

C15_Witness ==
    /\ pc = "done"
    /\ response.kind = "envelope" /\ response.status = "UnsupportedQNodeCategory"
    /\ response.results_null /\ response.knowledge_graph_null
    /\ PairSetTarget /\ NoPairDerived
    /\ calls.query_association = <<>>

(***************************************************************************)
(* Query options and criteria.                                             *)
(***************************************************************************)
\* The request passed _check_query_input and names no unrecognized method
\* (an unrecognized method string is a hard rejection, lines 225-229).
OptionsRead ==
    /\ pc # "new" /\ WellFormed
    /\ (sc.options.method.t = "str" /\ sc.options.method.s # "")
          => sc.options.method.s \in supported_query_methods

\* An exception ended _interpret_query while it read the options, before
\* it read the query edge.
OptionsAbort == pc = "done" /\ response = Raised /\ q.query_edge_key = None

\* C16: a malformed option value (here: a string where a number or a
\* boolean is expected, anything but a string for the method) is replaced
\* by the default, or ignored for the threshold, and the request is neither
\* rejected for it nor aborted.
C16_MalformedOptionsFallBack ==
    OptionsRead =>
        /\ ~OptionsAbort
        /\ HardRejected => q.invalid_query_response.why # "Query method not supported"
        /\ sc.options.method.t # "str" => q.method = default_method
        /\ sc.options.dataset_id.t = "str" => q.dataset_id = default_dataset_id
        /\ sc.options.min_cooccurrence.t = "str"
              => q.min_cooccurrence = default_min_cooccurrence
        /\ sc.options.confidence_interval.t = "str"
              => q.confidence_interval = default_confidence_interval
        /\ sc.options.local_oxo.t = "str" => q.local_oxo = default_local_oxo
        /\ sc.options.mapping_distance.t = "str"
              => q.mapping_distance = default_mapping_distance
        /\ sc.options.ontology_targets.t = "str" => q.concept_mapper = "default_ontology_map"
        /\ sc.options.biolink_only.t = "str" => q.biolink_only = default_biolink_only
        /\ sc.options.max_results.t = "str" => q.max_results = default_max_results
        /\ (sc.options.threshold.t = "str" /\ ValidQuery) =>
              \A i \in 1..Len(q.criteria) : q.criteria[i].function # "criteria_threshold"

\* The names of the criteria functions in q.criteria, in list order.
CriteriaFunctions == [i \in 1..Len(q.criteria) |-> q.criteria[i].function]

CriterionFor(fn) == CHOOSE c \in Range(q.criteria) : c.function = fn

\* C17: the criteria of a valid query are, in this order, the minimum
\* co-occurrence iff min_cooccurrence > 0, the threshold iff the user gave
\* a numeric threshold, the confidence criterion iff the method is
\* obsExpRatio and confidence_interval > 0, each bound to its parameter.
C17_CriteriaList ==
    ValidQuery =>
        LET by_count == q.min_cooccurrence > 0
            by_threshold == IsNum(sc.options.threshold)
            by_confidence == q.method = "obsExpRatio" /\ q.confidence_interval > 0
        IN  /\ CriteriaFunctions =
                  (IF by_count THEN <<"criteria_min_cooccurrence">> ELSE <<>>)
                  \o (IF by_threshold THEN <<"criteria_threshold">> ELSE <<>>)
                  \o (IF by_confidence THEN <<"criteria_confidence">> ELSE <<>>)
            /\ by_count =>
                  CriterionFor("criteria_min_cooccurrence").arg = q.min_cooccurrence
            /\ by_threshold =>
                  CriterionFor("criteria_threshold").arg = NumberValue(sc.options.threshold)
            /\ by_confidence =>
                  CriterionFor("criteria_confidence").arg = q.confidence_interval

C17_Witness ==
    /\ pc = "done" /\ Served
    /\ CriteriaFunctions =
          <<"criteria_min_cooccurrence", "criteria_threshold", "criteria_confidence">>
    /\ sc.options.min_cooccurrence.t = "num"

(***************************************************************************)
(* Determinism.                                                            *)
(***************************************************************************)
\* C18: every other run on the same request and the same stubs, whatever
\* the order in which it iterates the set of (domain, class) pairs, gives
\* the results and the knowledge graph (node ids, edge ids and the records
\* they carry) that this run gave.
C18_Deterministic ==
    Served =>
        \A order \in Orders(q.domain_class_pairs.pairs) :
            RunOutcome(sc, q, order) =
                [results |-> response.results, knowledge_graph |-> response.knowledge_graph]

(***************************************************************************)
(* The result limit and the knowledge graph.                               *)
(***************************************************************************)
\* The results list has grown to max_results.
LimitReached == results # <<>> /\ Len(results) >= q.max_results

\* C19: once the results list has reached max_results no record is
\* processed: no criterion is evaluated (the history of processed records
\* stays), no node is created or cached, no collaborator is called, no
\* node or edge is inserted, no result is added.
C19_StopsAtMaxResults ==
    [][LimitReached =>
          /\ pc # "loop"
          /\ UNCHANGED <<log, idx, kg_nodes, kgraph, results, calls, first_seen>>]_vars

C19_Witness ==
    /\ pc = "done" /\ Served
    /\ Len(response.results) = q.max_results
    /\ Len(log) < Len(cohd_results)
    /\ PassesCriteria(q.criteria, cohd_results[Len(log) + 1])
    /\ cohd_results[Len(log) + 1].concept_id_2 \notin DOMAIN kg_nodes

\* The concepts the accepted records refer to.
AcceptedConcepts == UNION {Refs(log[i].record) : i \in Accepted}

AcceptedAt(k) ==
    CHOOSE i \in Accepted : Cardinality({j \in Accepted : j <= i}) = k

\* C21: for a query that passes validation, every result binds the two
\* qnode keys of the query edge to the primary identifiers of the nodes
\* built for them (the anchor's key to the node of concept 1, the other
\* key to the node of concept 2) and binds the query edge key, and only
\* that key, to one edge id of the knowledge graph.
C21_ResultBindings ==
    ValidQuery =>
        /\ Len(results) = Cardinality(Accepted)
        /\ \A k \in 1..Len(results) :
              LET r == log[AcceptedAt(k)].record
                  nb == results[k].node_bindings
                  eb == results[k].edge_bindings
              IN  /\ DOMAIN nb = {q.query_edge.subject, q.query_edge.object}
                  /\ DOMAIN nb = {q.concept_1_qnode_key, q.concept_2_qnode_key}
                  /\ nb[q.concept_1_qnode_key] = kg_nodes[r.concept_id_1].primary_curie
                  /\ nb[q.concept_2_qnode_key] = kg_nodes[r.concept_id_2].primary_curie
                  /\ DOMAIN eb = {q.query_edge_key}
                  /\ eb[q.query_edge_key] \in DOMAIN kgraph.edges

C21_Witness ==
    /\ pc = "done" /\ Served /\ ValidQuery
    /\ Len(response.results) = 1
    /\ q.query_edge.subject = q.concept_2_qnode_key
    /\ DOMAIN response.results[1].node_bindings = DOMAIN sc.nodes
    /\ response.results[1].node_bindings[q.concept_1_qnode_key]
          # response.results[1].node_bindings[q.concept_2_qnode_key]

(***************************************************************************)
(* The predicates of the query edge.                                       *)
(***************************************************************************)
\* The request reached the predicate check (lines 290-316): it passed the
\* shape check and the options and has exactly one edge.
PredicateStage == pc # "new" /\ WellFormed /\ q.query_edge_key # None

PredicateRejections ==
    {"predicate was not recognized as a biolink predicate",
     "None of the predicates are supported by COHD."}

RejectedFor(why) ==
    /\ ~q.valid_query
    /\ q.invalid_query_response = Rejection(why)
    /\ pc = "done" => response = q.invalid_query_response

Supports(p) == predicate_descendants(p) \cap supported_edge_types # {}

\* C22: when the query edge lists predicates, the query is rejected if any
\* of them, at whatever position, is not a predicate of the ontology, and
\* rejected if none of them has a supported predicate among its
\* descendants; otherwise it passes the predicate check.  Without
\* predicates the check passes and the default predicate is used.
C22_PredicateCheck ==
    PredicateStage =>
        LET edge == sc.edges[q.query_edge_key]
            preds == edge.predicates
            passes == ~(~q.valid_query /\ q.invalid_query_response.kind = "rejection"
                        /\ q.invalid_query_response.why \in PredicateRejections)
        IN  IF ~edge.has_predicates
            THEN passes /\ q.query_edge_predicates = <<default_predicate>>
            ELSE IF \E i \in 1..Len(preds) : ~is_predicate(preds[i])
            THEN RejectedFor("predicate was not recognized as a biolink predicate")
            ELSE IF \A i \in 1..Len(preds) : ~Supports(preds[i])
            THEN RejectedFor("None of the predicates are supported by COHD.")
            ELSE passes /\ q.query_edge_predicates = preds

C22_Witness ==
    /\ pc = "done" /\ PredicateStage
    /\ sc.edges[q.query_edge_key].has_predicates
    /\ sc.edges[q.query_edge_key].predicates = <<"biolink:related_to", "not_a_predicate">>
    /\ response = Rejection("predicate was not recognized as a biolink predicate")

(***************************************************************************)
(* The order of the records.                                               *)
(***************************************************************************)
\* The lists the retrieval calls returned, concatenated in call order.
RECURSIVE ReturnedBy(_)
ReturnedBy(cs) ==
    IF cs = <<>> THEN <<>>
    ELSE query_association(sc, q.concept_1_omop_id, Head(cs).concept_id_2,
                           Head(cs).domain_id, Head(cs).concept_class_id)
         \o ReturnedBy(Tail(cs))

Count(rs, r) == Cardinality({i \in 1..Len(rs) : rs[i] = r})

SameRecords(rs, ts) ==
    /\ Len(rs) = Len(ts)
    /\ \A i \in 1..Len(rs) : Count(rs, rs[i]) = Count(ts, rs[i])

\* C23: nothing is filtered or built before the retrieval; the list the
\* loop works on holds the records of all calls, sorted as a whole in
\* descending order of score; and the i-th record processed is the i-th
\* record of that list.
C23_SortedThenProcessed ==
    /\ pc \in {"new", "interpreted"} =>
          /\ log = <<>> /\ results = <<>>
          /\ kg_nodes = EmptyMap /\ kgraph = EmptyGraph
    /\ RetrievalDone =>
          /\ IsSorted(cohd_results)
          /\ SameRecords(cohd_results, ReturnedBy(calls.query_association))
    /\ Len(log) <= Len(cohd_results)
    /\ \A i \in 1..Len(log) : log[i].record = cohd_results[i]

C23_Witness ==
    /\ pc = "done" /\ Served
    /\ Len(calls.query_association) = 2
    /\ ~IsSorted(ReturnedBy(calls.query_association))
    /\ Len(log) >= 2
    /\ log[1].record.score > log[2].record.score

\* The cached node of the concept that a record supplies for a qnode key.
NodeFor(key, r) ==
    IF key = q.concept_1_qnode_key THEN kg_nodes[r.concept_id_1]
    ELSE kg_nodes[r.concept_id_2]

\* C24: every edge of the knowledge graph has as subject the primary
\* identifier of the node built for the qnode the query edge names as its
\* subject, and as object that of the node built for the qnode it names
\* as its object, whether the anchor is the subject or the object.
C24_EdgeDirection ==
    ValidQuery =>
        /\ DOMAIN kgraph.edges = {<<"ke", k - 1>> : k \in 1..Cardinality(Accepted)}
        /\ \A k \in 1..Cardinality(Accepted) :
              LET r == log[AcceptedAt(k)].record
                  kg_edge == kgraph.edges[<<"ke", k - 1>>]
              IN  /\ kg_edge.subject = NodeFor(q.query_edge.subject, r).primary_curie
                  /\ kg_edge.object = NodeFor(q.query_edge.object, r).primary_curie
                  /\ kg_edge.subject = results[k].node_bindings[q.query_edge.subject]
                  /\ kg_edge.object = results[k].node_bindings[q.query_edge.object]

C24_Witness ==
    /\ pc = "done" /\ Served
    /\ q.query_edge.object = q.concept_1_qnode_key
    /\ q.query_edge.subject = q.concept_2_qnode_key
    /\ \E e \in DOMAIN kgraph.edges :
          /\ kgraph.edges[e].object = q.concept_1_qnode_curie
          /\ kgraph.edges[e].subject # kgraph.edges[e].object

\* The edge ids the results are bound to.
BoundEdges == {results[k].edge_bindings[q.query_edge_key] : k \in 1..Len(results)}

QNodeCurieFor(c, r) ==
    IF c = r.concept_id_1 THEN q.concept_1_qnode_curie ELSE q.concept_2_qnode_curie

ByQuery(node) == \E r \in Range(cohd_results) :
    /\ node.omop_id \in Refs(r)
    /\ QNodeCurieFor(node.omop_id, r) # NoCurie
    /\ node.primary_curie = QNodeCurieFor(node.omop_id, r)

ByMapping(node) ==
    /\ sc.from_omop[node.omop_id] # NoCurie
    /\ node.primary_curie = sc.from_omop[node.omop_id]

Native(node) ==
    /\ sc.from_omop[node.omop_id] = NoCurie
    /\ node.primary_curie = omop_concept_curie(node.omop_id)

\* C26: a node that is created gets as primary identifier the identifier
\* chosen for its qnode when there is one, otherwise the target identifier
\* of the mapper when map_from_omop has a mapping, otherwise the OMOP
\* identifier of the concept; it is flagged biolink-compliant in the first
\* two cases and only in them.
C26_PrimaryIdentifier ==
    [][pc = "loop" =>
          \A c \in DOMAIN kg_nodes' \ DOMAIN kg_nodes :
              LET r == cohd_results[idx]
                  node == kg_nodes'[c]
                  chosen == QNodeCurieFor(c, r)
                  mapping == sc.from_omop[c]
              IN  /\ c \in Refs(r)
                  /\ node.omop_id = c
                  /\ node.primary_curie =
                        IF chosen # NoCurie THEN chosen
                        ELSE IF mapping # NoCurie THEN mapping
                        ELSE omop_concept_curie(c)
                  /\ node.biolink_compliant <=> (chosen # NoCurie \/ mapping # NoCurie)]_vars

C26_Witness ==
    /\ pc = "done"
    /\ \E a, b, c \in DOMAIN kg_nodes :
          /\ ByQuery(kg_nodes[a]) /\ kg_nodes[a].biolink_compliant
          /\ sc.from_omop[a] \notin {NoCurie, kg_nodes[a].primary_curie}
          /\ ~ByQuery(kg_nodes[b]) /\ ByMapping(kg_nodes[b]) /\ kg_nodes[b].biolink_compliant
          /\ ~ByQuery(kg_nodes[c]) /\ Native(kg_nodes[c]) /\ ~kg_nodes[c].biolink_compliant

(***************************************************************************)
(* The evaluation of the criteria.                                         *)
(***************************************************************************)
\* C27 as stated: on every record the evaluation stops at the first
\* criterion that fails, so a failed check is the last check made on the
\* record.
C27_StopsAtFirstFailure ==
    \A i \in 1..Len(log) :
        \A j \in DOMAIN log[i].checks :
            ~log[i].checks[j] => j = Len(log[i].checks)

\* C27, amended: every criterion of the list is evaluated on every
\* candidate record, in list order, whether or not an earlier criterion
\* failed; the record goes on exactly when all of them hold.
C27_EveryCriterionEvaluated ==
    \A i \in 1..Len(log) :
        /\ Len(log[i].checks) = Len(q.criteria)
        /\ \A j \in 1..Len(q.criteria) :
              log[i].checks[j] = check(q.criteria[j], log[i].record)
        /\ log[i].outcome = "filtered" <=> \E j \in 1..Len(q.criteria) : ~log[i].checks[j]

C27_Witness ==
    /\ log # <<>> /\ Last.outcome = "filtered"
    /\ \E j, k \in DOMAIN Last.checks : j < k /\ ~Last.checks[j] /\ Last.checks[k]

(***************************************************************************)
(* The node cache and the collaborators.                                   *)
(***************************************************************************)
\* The part of the instance that _get_kg_node works on.
Instance ==
    [kg_nodes |-> kg_nodes, kgraph |-> kgraph, results |-> results, calls |-> calls]

\* C28: the concept-definition lookup and the map_from_omop lookup are
\* made at most once for a concept id, when its node is created; a record
\* whose concepts are all in the cache triggers no collaborator call and
\* leaves the cache alone; and _get_kg_node, on a cached or a new concept,
\* leaves the knowledge graph and the results as they are.
C28_LookupsOncePerConcept ==
    /\ [](/\ \A c \in Concepts :
                /\ Count(calls.omop_concept_definition, c) = (IF c \in DOMAIN kg_nodes THEN 1 ELSE 0)
                /\ Count(calls.map_from_omop, c) = (IF c \in DOMAIN kg_nodes THEN 1 ELSE 0)
          /\ \A c \in Concepts, n \in {NoName, Name(1)}, u \in {NoCurie, Curie(1)} :
                LET after == _get_kg_node(Instance, sc, c, n, None, u)
                IN  /\ after.kgraph = kgraph /\ after.results = results
                    /\ c \in DOMAIN kg_nodes => after = Instance)
    /\ [][(pc = "loop" /\ Refs(cohd_results[idx]) \subseteq DOMAIN kg_nodes)
            => /\ UNCHANGED calls
               /\ DOMAIN kg_nodes' = DOMAIN kg_nodes
               /\ \A c \in DOMAIN kg_nodes :
                     [kg_nodes'[c] EXCEPT !.in_kgraph = FALSE]
                         = [kg_nodes[c] EXCEPT !.in_kgraph = FALSE]]_vars

C28_Witness ==
    /\ Len(log) = 2
    /\ Refs(log[2].record) \subseteq Refs(log[1].record)
    /\ log[1].outcome = "added" /\ log[2].outcome = "added"
    /\ Len(calls.omop_concept_definition) = 2
    /\ Len(calls.map_from_omop) = 2

(***************************************************************************)
(* Which records become results.                                           *)
(***************************************************************************)
\* The node of concept c, asked for on behalf of record r, is flagged
\* biolink-compliant (lines 674-686).
Compliant(c, r) == QNodeCurieFor(c, r) # NoCurie \/ sc.from_omop[c] # NoCurie

\* The record passes all criteria and the biolink-only check (lines
\* 557-581).
Qualifies(r) ==
    /\ PassesCriteria(q.criteria, r)
    /\ q.biolink_only => \A c \in Refs(r) : Compliant(c, r)

Take(rs, n) == SubSeq(rs, 1, IF n < 0 THEN 0 ELSE Min(n, Len(rs)))

\* The records behind the results, in the order of the results.
ResultRecords == [k \in 1..Len(results) |-> log[AcceptedAt(k)].record]

\* C29: the results of a served query come from exactly the first
\* max_results records, in the order of the sorted list, among the records
\* that pass all criteria and the biolink-only check: none of these is
\* skipped for a later one and the results keep the order of the list.
C29_FirstMaxResults ==
    Served =>
        /\ Len(response.results) = Cardinality(Accepted)
        /\ response.results = results
        /\ ResultRecords = Take(SelectSeq(cohd_results, Qualifies), q.max_results)

(***************************************************************************)
(* The entries of knowledge_graph['nodes'].                                *)
(***************************************************************************)
\* The cached nodes marked as inserted.
Inserted == {c \in DOMAIN kg_nodes : kg_nodes[c].in_kgraph}

\* C30: every cached node marked in_kgraph has its own kg_node payload
\* under its primary_curie in knowledge_graph['nodes'], there are as many
\* entries as cached nodes marked inserted, and two distinct concept ids
\* never have the same entry.
C30_OwnEntryPerConcept ==
    /\ \A c \in Inserted :
          /\ kg_nodes[c].primary_curie \in DOMAIN kgraph.nodes
          /\ kgraph.nodes[kg_nodes[c].primary_curie] = kg_nodes[c].kg_node
    /\ Cardinality(DOMAIN kgraph.nodes) = Cardinality(Inserted)
    /\ \A c, d \in Inserted :
          c # d => kg_nodes[c].primary_curie # kg_nodes[d].primary_curie

(***************************************************************************)
(* The query edge and the two concept keys.                                *)
(***************************************************************************)
ConceptKeys == {q.concept_1_qnode_key, q.concept_2_qnode_key}

\* C31: for a query that passes validation the subject of the query edge
\* is the qnode key of concept 1 or that of concept 2 (and the object is
\* the other one), so no record, processed or still to come, takes the
\* LookupError branch of _add_cohd_result.
C31_NoLookupError ==
    /\ (pc # "new" /\ q.valid_query) => q.query_edge.subject \in ConceptKeys
    /\ RetrievalDone =>
          /\ q.query_edge.subject # None
          /\ ConceptKeys = {q.query_edge.subject, q.query_edge.object}
          /\ \A i \in 1..Len(cohd_results) :
                _add_cohd_result(Instance, sc, q, cohd_results[i]).outcome # "LookupError"
    /\ \A i \in 1..Len(log) : log[i].outcome # "LookupError"

C31_Witness ==
    /\ pc = "done" /\ Served
    /\ SubjectQNode.has_ids /\ ObjectQNode.has_ids
    /\ q.query_edge.subject = q.concept_2_qnode_key
    /\ log # <<>> /\ Last.outcome = "added"

(***************************************************************************)
(* The validity flag and the stored response.                              *)
(***************************************************************************)
\* _interpret_query has returned (no exception ended it).
Interpreted == pc # "new" /\ ~(response = Raised /\ calls.query_association = <<>>)

\* Nothing was retrieved and nothing was built.
Untouched ==
    /\ calls.query_association = <<>>
    /\ calls.omop_concept_definition = <<>> /\ calls.map_from_omop = <<>>
    /\ cohd_results = <<>> /\ log = <<>>
    /\ kg_nodes = EmptyMap /\ kgraph = EmptyGraph /\ results = <<>>

\* C32: when _interpret_query returns, _valid_query is true exactly when
\* _invalid_query_response is None; and operate() on an instance whose
\* _valid_query is false returns the stored response, issues no retrieval
\* call and adds no node, edge or result.
C32_ValidIffNoStoredResponse ==
    /\ [](/\ Interpreted => (q.valid_query <=> q.invalid_query_response = NoResponse)
          /\ (Interpreted /\ ~q.valid_query) =>
                /\ Untouched
                /\ pc \in {"interpreted", "done"}
                /\ pc = "done" => response = q.invalid_query_response)
    /\ [][(pc = "interpreted" /\ ~q.valid_query) =>
              /\ pc' = "done"
              /\ response' = q.invalid_query_response
              /\ UNCHANGED <<q, calls, cohd_results, kg_nodes, kgraph, results, log>>]_vars

C32_Witness ==
    /\ pc = "done" /\ Interpreted /\ ~q.valid_query
    /\ q.invalid_query_response.kind = "envelope"
    /\ response = q.invalid_query_response
    /\ calls.map_to_omop # <<>>

====
